---------------------------- MODULE Spec2Model ----------------------------
(***************************************************************************)
(* A model of seashell (src/seashell.c): the read-parse-execute loop of    *)
(* main, read_line, parse_line, execute_command and free_command, together *)
(* with the operating-system side the loop talks to: the standard input    *)
(* stream, the child processes created by fork, the reports of waitpid and *)
(* the delivery of the terminal's interrupt signal.                        *)
(*                                                                         *)
(* Characters are modelled by short strings ("e", "SP", "NL", "NUL", ...). *)
(* A C buffer is a sequence of characters; the terminating NUL that fgets  *)
(* writes after the last character read is implicit (position Len+1).      *)
(***************************************************************************)
EXTENDS Integers, Sequences, FiniteSets, TLC

-----------------------------------------------------------------------------
(* Program constants (src/seashell.c:8-18).                                *)

EMPTY_ARGS == -3

EOF_REACHED == -2

ERROR == -1

RED == 0

GREEN == 1

\* MAX_LINE is 1024 in the source.  The model scales it down so that lines
\* that fill the buffer can be enumerated; every formula is stated in terms
\* of MAX_LINE, never of its value.
MAX_LINE == 9

NUL == "NUL"

NL == "NL"

\* DELIM " \t\r\n\a"
DELIM == {"SP", "TAB", "CR", "NL", "BEL"}

\* The string literal "exit" of execute_command.
ExitStr == <<"e", "x", "i", "t">>

\* The name "cd" (the source has no such literal: see execute_command).
CdStr == <<"c", "d">>

\* The exit status of exit(ERROR) as a parent sees it: the low eight bits
\* of -1.
ErrorExitCode == 255

-----------------------------------------------------------------------------
(* Bounds of the model.                                                    *)

\* The input stream is a concatenation of at most MaxPieces pieces.
MaxPieces == 4

\* How many times a child may be stopped (SIGSTOP/SIGTSTP) in one run.
MaxStops == 1

Pieces == { ExitStr, CdStr, <<"l">>, <<"SP">>, <<"BEL">>, <<NL>>, <<NUL>> }

RECURSIVE StreamsOf(_)
StreamsOf(k) ==
  IF k = 0 THEN { <<>> }
  ELSE LET S == StreamsOf(k - 1)
       IN  S \cup { p \o s : p \in Pieces, s \in S }

Streams == StreamsOf(MaxPieces)

\* Exit codes a program that was exec'ed may end with.
ExitCodes == {0, 1}

-----------------------------------------------------------------------------
(* Helpers on buffers.                                                     *)

Min(a, b) == IF a < b THEN a ELSE b

Take(s, n) == SubSeq(s, 1, Min(n, Len(s)))

Drop(s, n) == SubSeq(s, n + 1, Len(s))

\* Index of the first position >= from of s holding a character of set C,
\* or Len(s)+1 when there is none.
FirstIn(s, from, C) ==
  IF from > Len(s) THEN Len(s) + 1
  ELSE CHOOSE i \in from..(Len(s) + 1) :
         /\ i = Len(s) + 1 \/ s[i] \in C
         /\ \A j \in from..(i - 1) : s[j] \notin C

\* Index of the first position >= from of s holding a character not in C.
FirstNotIn(s, from, C) ==
  IF from > Len(s) THEN Len(s) + 1
  ELSE CHOOSE i \in from..(Len(s) + 1) :
         /\ i = Len(s) + 1 \/ s[i] \notin C
         /\ \A j \in from..(i - 1) : s[j] \in C

\* strlen of a buffer whose implicit terminator is at Len(buf)+1.
strlen(buf) == FirstIn(buf, 1, {NUL}) - 1

\* The C string that starts at offset p of the buffer (p = 0: null pointer).
StrAt(buf, p) ==
  IF p = 0 \/ p > Len(buf) THEN <<>>
  ELSE SubSeq(buf, p, FirstIn(buf, p, {NUL}) - 1)

-----------------------------------------------------------------------------
(* read_line (src/seashell.c:129-166).                                     *)

\* How many characters fgets(line, MAX_LINE, stdin) takes from the stream:
\* up to and including the first newline, at most MAX_LINE-1.
FgetsCount(in) ==
  LET p == FirstIn(in, 1, {NL})
  IN  IF p <= Len(in) /\ p <= MAX_LINE - 1 THEN p
      ELSE Min(Len(in), MAX_LINE - 1)

\* The stream after `while ((ch = getchar()) != '\n' && ch != EOF);`
DrainLine(in) ==
  LET q == FirstIn(in, 1, {NL})
  IN  Drop(in, Min(q, Len(in)))

\* The overflow test of read_line: len == MAX_LINE - 1 && line[len - 1] != '\n'
Truncated(buf) ==
  LET len == strlen(buf)
  IN  len = MAX_LINE - 1 /\ buf[len] # NL

\* Faulty variant: a last line without its newline is dropped as end of input.
read_line_DropsUnterminated(in, old) ==
  LET n   == FgetsCount(in)
      buf == Take(in, n)
  IN  IF n = 0 \/ buf[n] # NL
      THEN [ret |-> EOF_REACHED, line |-> old, rest |-> Drop(in, n)]
      ELSE [ret |-> strlen(buf), line |-> buf, rest |-> Drop(in, n)]

\* read_line on a stream whose read primitive does not fail: the value
\* returned, the buffer, and what is left of the stream.  old is the
\* buffer's content before the call.  (main always passes its own buffer,
\* so the null-pointer test of line 132 never succeeds.)
read_line(in, old) ==
  LET n   == FgetsCount(in)
      buf == Take(in, n)
  IN  IF n = 0
      THEN [ret |-> EOF_REACHED, line |-> old, rest |-> in]
      ELSE IF Truncated(buf)
      THEN [ret |-> ERROR, line |-> buf, rest |-> DrainLine(Drop(in, n))]
      ELSE [ret |-> strlen(buf), line |-> buf, rest |-> Drop(in, n)]

-----------------------------------------------------------------------------
(* parse_line (src/seashell.c:180-220).                                    *)

\* The argument vector after memset(cmd.args, 0, ...): cap null pointers,
\* cap being the vector's capacity (MAX_LINE in main).  args[i] of the
\* source is element i+1 here; a pointer into the line buffer is the offset
\* (from 1) it points at, the null pointer is 0.
NoArgsIn(cap) == [i \in 1..cap |-> 0]

NoArgs == NoArgsIn(MAX_LINE)

\* Faulty variant: the Command is not reset between lines.
ResetCommand_Skipped(cap, cmd) == cmd

\* The Command after main's reset (lines 80-82): both buffers zeroed, the
\* count 0.  cmd is the Command before the reset.
ResetCommand(cap, cmd) == [args |-> NoArgsIn(cap), name |-> <<>>, arg_count |-> 0]

\* Faulty variant: the bound test lets one more token in.
VectorFull_Late(cap, position) == position > cap

\* The bound test of the strtok loop: `if (position >= MAX_LINE)`.
VectorFull(cap, position) == position >= cap

\* Faulty variant: only the space ends a token.
TokenEnd_SpaceOnly(buf, s) == FirstIn(buf, s, {"SP", NUL})

\* Where strtok ends the token that starts at s: at the next delimiter or
\* at the end of the string.
TokenEnd(buf, s) == FirstIn(buf, s, DELIM \cup {NUL})

\* One iteration of the strtok loop (lines 191-203) on the loop's state t:
\* line is the line buffer (strtok writes a NUL over the delimiter that
\* ends each token), pos is strtok's saved position, args and position are
\* the vector being filled and the count so far, writes the indices (from
\* 0, as in the source) of args stored to so far; done says that the loop
\* has ended, full that it ended by the bound test.
TokenStep(t) ==
  IF t.done THEN t
  ELSE LET s == FirstNotIn(t.line, t.pos, DELIM)
       IN  IF s > Len(t.line) \/ t.line[s] = NUL
           THEN [t EXCEPT !.done = TRUE]
           ELSE LET e    == TokenEnd(t.line, s)
                    cut  == e <= Len(t.line) /\ t.line[e] \in DELIM
                    full == VectorFull(t.cap, t.position + 1)
                IN  [t EXCEPT
                       !.line = IF cut THEN [@ EXCEPT ![e] = NUL] ELSE @,
                       !.pos = IF cut THEN e + 1 ELSE e,
                       !.args = IF t.position + 1 \in DOMAIN @
                                THEN [@ EXCEPT ![t.position + 1] = s]
                                ELSE @,
                       !.position = @ + 1,
                       !.writes = @ \cup {t.position},
                       !.full = full,
                       !.done = full]

\* n iterations of the loop, from state t.
RECURSIVE TokenSteps(_, _)
TokenSteps(t, n) ==
  IF t.done \/ n = 0 THEN t
  ELSE IF n = 1 THEN TokenStep(t)
  ELSE TokenSteps(TokenSteps(t, n \div 2), n - (n \div 2))

\* The strtok loop run to its end: a string of Len(buf) characters holds
\* at most Len(buf) tokens, and one more iteration finds the end.
Tokenize(cap, buf, pos, args, position, writes) ==
  TokenSteps([cap |-> cap, line |-> buf, pos |-> pos, args |-> args,
              position |-> position, writes |-> writes,
              full |-> FALSE, done |-> FALSE],
             Len(buf) + 1)

\* (char)position where char is the 8-bit signed type.
ToChar(v) == ((v + 128) % 256) - 128

\* (char)position where char is the 8-bit unsigned type.
ToUChar(v) == v % 256

\* cmd->arg_count = position: arg_count is a plain char, whose signedness
\* is the implementation's choice.
StoredCount(v) == {ToChar(v), ToUChar(v)}

\* strncpy(cmd->name, cmd->args[0], MAX_LINE - 1) and the terminator of
\* line 216: the whole name buffer is overwritten.
CopyName(cap, buf, p) == Take(StrAt(buf, p), cap - 1)

\* parse_line on a line buffer and a Command cmd whose vector holds cap
\* pointers.  count is the value of position that line 217 stores.
\* (main passes non-null pointers, so the test of line 182 never succeeds.)
parse_line(cap, buf, cmd) ==
  LET t == Tokenize(cap, buf, 1, cmd.args, 0, {})
      terminated == IF t.position + 1 \in DOMAIN t.args
                    THEN [t.args EXCEPT ![t.position + 1] = 0]
                    ELSE t.args
  IN  IF t.full
      THEN [status |-> ERROR, line |-> t.line, args |-> t.args,
            name |-> cmd.name, count |-> cmd.arg_count,
            msg |-> {"Too many arguments"}, writes |-> t.writes]
      ELSE IF t.position = 0
      THEN [status |-> EMPTY_ARGS, line |-> t.line, args |-> terminated,
            name |-> cmd.name, count |-> cmd.arg_count, msg |-> {},
            writes |-> t.writes \cup {t.position}]
      ELSE [status |-> GREEN, line |-> t.line, args |-> terminated,
            name |-> CopyName(cap, t.line, t.args[1]),
            count |-> t.position, msg |-> {},
            writes |-> t.writes \cup {t.position}]

\* The strings of the argument vector up to its first null pointer, as
\* execvp or any other reader of cmd->args sees them in buffer buf.
ArgStrings(buf, args, i) ==
  LET last == FirstIn(args, i, {0}) - 1
  IN  [k \in 1..(last - i + 1) |-> StrAt(buf, args[i + k - 1])]

-----------------------------------------------------------------------------
(* The state.                                                              *)

VARIABLES
  pc,          \* where main is: "Startup", "Prompting", "Reading", "Parsing",
               \* "Executing", "Waiting", "Terminated" (the loop has ended),
               \* "Exited" (main returned), "Aborted" (exit(ERROR) at
               \* startup), "Killed" (the shell died of a signal)
  status,      \* main's status
  stdin,       \* the characters not yet read from standard input
  line,        \* main's line buffer
  len,         \* what read_line last returned
  args,        \* cmd.args: offsets into line, 0 for a null pointer
  name,        \* cmd.name: the C string held by the name buffer
  arg_count,   \* cmd.arg_count
  heap,        \* the allocation state of cmd.args and cmd.name
  children,    \* the processes fork has created; the pid is the index
  pid,         \* execute_command's pid
  wstatus,     \* execute_command's status, as waitpid last filled it
  sigint,      \* the shell's disposition of the interrupt signal
  cwd,         \* the shell's working directory
  exit_status, \* the shell's own exit status, -1 while it runs
  stops,       \* how many times a child was stopped so far
  calls,       \* process primitives called since the last prompt
  errs         \* diagnostics written since the last prompt

cmdVars == <<args, name, arg_count>>

procVars == <<children, pid, wstatus, stops>>

envVars == <<sigint, cwd, heap>>

vars == <<pc, status, stdin, line, len, args, name, arg_count, heap, children,
          pid, wstatus, sigint, cwd, exit_status, stops, calls, errs>>

NoStatus == [kind |-> "none", val |-> 0]

Alive(c) == c.st \in {"forked", "running", "stopped"}

AliveChildren == { i \in DOMAIN children : Alive(children[i]) }

ShellRuns == pc \notin {"Exited", "Aborted", "Killed"}

Init ==
  /\ pc = "Startup"
  /\ status = GREEN
  /\ stdin \in Streams
  /\ line = <<>>
  /\ len = 0
  /\ args = NoArgs
  /\ name = <<>>
  /\ arg_count = 0
  /\ heap = [args |-> "none", name |-> "none"]
  /\ children = <<>>
  /\ pid = 0
  /\ wstatus = NoStatus
  /\ sigint \in {"SIG_DFL", "SIG_IGN"}
  /\ cwd = "/"
  /\ exit_status = -1
  /\ stops = 0
  /\ calls = {}
  /\ errs = {}

-----------------------------------------------------------------------------
(* main (src/seashell.c:32-121).                                           *)

\* What malloc can return: a fresh block, or the null pointer.
Malloc == {"allocated", "none"}

\* free(p) on a buffer in state b: releasing a live block makes it freed;
\* anything else handed to free (a block already freed, a pointer that was
\* never allocated) is a fault of the caller.
Free(b) == IF b = "allocated" THEN "freed" ELSE "invalid"

\* Faulty variant: only the name buffer is released.
free_command_LeaksArgs(h) == [h EXCEPT !.name = Free(h.name)]

\* free_command: free(cmd->name); free(cmd->args);
free_command(h) == [args |-> Free(h.args), name |-> Free(h.name)]

\* Faulty variant: the shell's exit status reports how the loop ended.
MainReturn_ReportsError ==
  IF len = ERROR \/ "Error executing command" \in errs THEN 1 ELSE 0

\* return 0; at the end of main.
MainReturn == 0

\* The two allocations of main and their failure paths (lines 36-50).
Startup ==
  /\ pc = "Startup"
  /\ \E a \in Malloc :
       IF a = "none"
       THEN /\ heap' = [heap EXCEPT !.args = a]
            /\ pc' = "Aborted"
            /\ exit_status' = ErrorExitCode
            /\ errs' = {"Error allocating memory for the command args."}
       ELSE \E n \in Malloc :
              IF n = "none"
              THEN /\ heap' = [args |-> Free(a), name |-> n]
                   /\ pc' = "Aborted"
                   /\ exit_status' = ErrorExitCode
                   /\ errs' = {"Error allocating memory for command name."}
              ELSE /\ heap' = [args |-> a, name |-> n]
                   /\ pc' = "Prompting"
                   /\ UNCHANGED <<exit_status, errs>>
  /\ UNCHANGED <<status, stdin, line, len, cmdVars, procVars, sigint, cwd, calls>>

\* while (status) { printf("seashell> "); ...
\* execute_command's local status does not outlive the call: the model
\* forgets it here, with the record of the iteration's calls and messages.
Prompt ==
  /\ pc = "Prompting"
  /\ status # RED
  /\ pc' = "Reading"
  /\ wstatus' = NoStatus
  /\ calls' = {}
  /\ errs' = {}
  /\ UNCHANGED <<status, stdin, line, len, cmdVars, children, pid, stops,
                 envVars, exit_status>>

\* Faulty variant: a read error is reported and the loop goes on.
StatusAfterRead_SkipsError(l) ==
  IF l = EOF_REACHED THEN [status |-> RED, msg |-> {"EOF reached."}]
  ELSE IF l = ERROR THEN [status |-> GREEN, msg |-> {"Error reading input."}]
  ELSE [status |-> GREEN, msg |-> {}]

\* The switch on read_line's result (lines 58-71): the new status and what
\* is printed.
StatusAfterRead(l) ==
  IF l = EOF_REACHED THEN [status |-> RED, msg |-> {"EOF reached."}]
  ELSE IF l = ERROR THEN [status |-> RED, msg |-> {"Error reading input."}]
  ELSE [status |-> GREEN, msg |-> {}]

\* Where main goes after the read: `if (status != GREEN) break;`
AfterRead(st) == IF st # GREEN THEN "Terminated" ELSE "Parsing"

\* ssize_t len = read_line(line), with a read primitive that works.
ReadLine ==
  /\ pc = "Reading"
  /\ LET r == read_line(stdin, line)
         s == StatusAfterRead(r.ret)
     IN  /\ stdin' = r.rest
         /\ line' = r.line
         /\ len' = r.ret
         /\ status' = s.status
         /\ errs' = errs \cup s.msg
         /\ pc' = AfterRead(s.status)
  /\ UNCHANGED <<cmdVars, procVars, envVars, exit_status, calls>>

\* fgets returns NULL and the stream is not at end-of-file: read_line
\* returns ERROR (line 165).  The buffer's content is then indeterminate;
\* nothing reads it afterwards.
ReadFail ==
  /\ pc = "Reading"
  /\ LET s == StatusAfterRead(ERROR)
     IN  /\ len' = ERROR
         /\ status' = s.status
         /\ errs' = errs \cup s.msg
         /\ pc' = AfterRead(s.status)
  /\ UNCHANGED <<stdin, line, cmdVars, procVars, envVars, exit_status, calls>>

\* Faulty variant: only a parse error skips the execution.
AfterParse_RunsEmpty(ps) == IF ps # ERROR THEN "Executing" ELSE "Prompting"

\* Where main goes after parse_line (the switch of lines 87-114).
AfterParse(ps) == IF ps = GREEN THEN "Executing" ELSE "Prompting"

\* What the switch prints for a parse status.
ParseMsg(ps) == IF ps = ERROR THEN {"Error parsing command."} ELSE {}

\* The reset of the Command and parse_line (lines 80-85), then the switch,
\* for a Command whose buffers hold cap elements.
ParseWith(cap) ==
  /\ pc = "Parsing"
  /\ LET cmd == [args |-> args, name |-> name, arg_count |-> arg_count]
         p   == parse_line(cap, line, ResetCommand(cap, cmd))
     IN  /\ line' = p.line
         /\ args' = p.args
         /\ name' = p.name
         /\ arg_count' \in StoredCount(p.count)
         /\ errs' = errs \cup p.msg \cup ParseMsg(p.status)
         /\ pc' = AfterParse(p.status)
         /\ status' = GREEN
  /\ UNCHANGED <<stdin, len, procVars, envVars, exit_status, calls>>

\* main's buffers hold MAX_LINE elements (lines 37 and 44).
Parse == ParseWith(MAX_LINE)

\* Faulty variant: an execution error is reported and the loop goes on.
StatusAfterExecute_Continues(es) == IF es = RED THEN RED ELSE GREEN

\* The if-chain on execute_command's result (lines 92-104).
StatusAfterExecute(es) ==
  IF es = ERROR THEN RED
  ELSE IF es = RED THEN RED
  ELSE GREEN

ExecuteMsg(es) == IF es = ERROR THEN {"Error executing command"} ELSE {}

\* The loop test `while (status)`.
AfterExecute(st) == IF st = RED THEN "Terminated" ELSE "Prompting"

\* free_command(&cmd); return 0;  (lines 117-120, 230-234)
Cleanup ==
  /\ pc = "Terminated"
  /\ heap' = free_command(heap)
  /\ exit_status' = MainReturn
  /\ pc' = "Exited"
  /\ UNCHANGED <<status, stdin, line, len, cmdVars, procVars, sigint, cwd, calls, errs>>

-----------------------------------------------------------------------------
(* execute_command (src/seashell.c:247-285).                               *)

\* Faulty variant: only the first four characters are compared (strncmp).
IsExit_Prefix(n) == Take(n, 4) = ExitStr

\* strcmp(cmd->name, "exit") == 0
IsExit(n) == n = ExitStr

\* Which names execute_command runs inside the shell instead of forking.
\* The source has one such test, the one for "exit".
IsBuiltin(n) == IsExit(n)

\* Faulty variant: the parent does not wait for the child.
AfterFork_NoWait == "Prompting"

\* Where the parent goes after a successful fork: the wait loop (line 274).
AfterFork == "Waiting"

\* The child fork creates: a copy of the shell (its Command included, as
\* the strings execvp will read), with the shell's signal dispositions.
NewChild ==
  [st |-> "forked", info |-> 0, reported |-> FALSE, sigint |-> sigint,
   name |-> name, argv |-> ArgStrings(line, args, 1)]

\* What is left of a child once waitpid has collected it.
Reaped == [st |-> "reaped", info |-> 0, reported |-> TRUE, sigint |-> "SIG_DFL",
           name |-> <<>>, argv |-> <<>>]

\* The start of execute_command: the test for "exit", then fork.
Execute ==
  /\ pc = "Executing"
  /\ IF IsBuiltin(name)
     THEN \* return RED
          /\ status' = StatusAfterExecute(RED)
          /\ errs' = errs \cup ExecuteMsg(RED)
          /\ pc' = AfterExecute(StatusAfterExecute(RED))
          /\ UNCHANGED <<procVars, calls>>
     ELSE \/ \* fork succeeds: the parent goes on to waitpid
             /\ children' = Append(children, NewChild)
             /\ pid' = Len(children) + 1
             /\ wstatus' = NoStatus
             /\ calls' = calls \cup {"fork"}
             /\ pc' = AfterFork
             /\ UNCHANGED <<status, errs, stops>>
          \/ \* fork fails: perror("fork"); return ERROR
             /\ calls' = calls \cup {"fork"}
             /\ status' = StatusAfterExecute(ERROR)
             /\ errs' = errs \cup {"fork"} \cup ExecuteMsg(ERROR)
             /\ pc' = AfterExecute(StatusAfterExecute(ERROR))
             /\ UNCHANGED procVars
  /\ UNCHANGED <<stdin, line, len, cmdVars, envVars, exit_status>>

\* Faulty variant: a report that the child is stopped ends the wait loop too.
WaitDone_StopEnds(ws) == ws.kind \in {"exited", "signaled", "stopped"}

\* Faulty variant: only a normal exit ends the wait loop.
WaitDone_ExitedOnly(ws) == ws.kind = "exited"

\* WIFEXITED(status) || WIFSIGNALED(status): the do-while loop ends.
WaitDone(ws) == ws.kind \in {"exited", "signaled"}

\* What waitpid(pid, &status, WUNTRACED) can report about child c now.
Reportable(c) ==
  \/ c.st \in {"exited", "signaled"}
  \/ c.st = "stopped" /\ ~c.reported

StatusOf(c) == [kind |-> c.st, val |-> c.info]

\* waitpid returns the child's pid: a terminated child is collected, a stop
\* is reported once.  Then the loop test, and on leaving the loop the
\* return of GREEN to main.
Waitpid ==
  /\ pc = "Waiting"
  /\ Reportable(children[pid])
  /\ LET ws == StatusOf(children[pid])
     IN  /\ wstatus' = ws
         /\ children' = [children EXCEPT ![pid] =
                           IF ws.kind = "stopped"
                           THEN [@ EXCEPT !.reported = TRUE]
                           ELSE Reaped]
         /\ IF WaitDone(ws)
            THEN /\ status' = StatusAfterExecute(GREEN)
                 /\ errs' = errs \cup ExecuteMsg(GREEN)
                 /\ pc' = AfterExecute(StatusAfterExecute(GREEN))
            ELSE UNCHANGED <<status, errs, pc>>
  /\ calls' = calls \cup {"waitpid"}
  /\ UNCHANGED <<stdin, line, len, cmdVars, envVars, exit_status, pid, stops>>

\* waitpid returns -1: perror("waitpid"); return ERROR.  The source makes
\* no assumption on when this happens, and neither does the model: the
\* child may be in any state.
WaitpidFail ==
  /\ pc = "Waiting"
  /\ calls' = calls \cup {"waitpid"}
  /\ status' = StatusAfterExecute(ERROR)
  /\ errs' = errs \cup {"waitpid"} \cup ExecuteMsg(ERROR)
  /\ pc' = AfterExecute(StatusAfterExecute(ERROR))
  /\ UNCHANGED <<stdin, line, len, cmdVars, envVars, exit_status, procVars>>

-----------------------------------------------------------------------------
(* The child process (src/seashell.c:262-270) and its environment.         *)

\* Whether the child changes its disposition of the interrupt signal
\* before execvp.  The source's child branch calls execvp at once.
ChildSigint(c) == c.sigint

\* Faulty variant: the child does not exit after the failed execvp; it
\* returns from execute_command into its own copy of the loop.
ExecFailed_FallsThrough(c) == [c EXCEPT !.st = "inloop"]

\* perror("execvp"); exit(ERROR); in child c (lines 267-269).
ExecFailed(c) == [c EXCEPT !.st = "exited", !.info = ErrorExitCode]

\* execvp(cmd->name, cmd->args) in the child: the image is replaced, or
\* execvp returns and the child does perror("execvp"); exit(ERROR).
ChildExec(i) ==
  /\ children[i].st = "forked"
  /\ \/ /\ children' = [children EXCEPT ![i] =
                          [@ EXCEPT !.st = "running",
                                    !.sigint = ChildSigint(children[i])]]
        /\ UNCHANGED errs
     \/ /\ children' = [children EXCEPT ![i] = ExecFailed(children[i])]
        /\ errs' = errs \cup {"execvp"}
  /\ calls' = calls \cup {"execvp"}
  /\ UNCHANGED <<pc, status, stdin, line, len, cmdVars, envVars, exit_status,
                 pid, wstatus, stops>>

\* The program the child runs ends with an exit code.
ChildExit(i, code) ==
  /\ children[i].st = "running"
  /\ children' = [children EXCEPT ![i] = [@ EXCEPT !.st = "exited", !.info = code]]
  /\ UNCHANGED <<pc, status, stdin, line, len, cmdVars, envVars, exit_status,
                 pid, wstatus, stops, calls, errs>>

\* The child is killed by a signal it cannot catch.
ChildKill(i) ==
  /\ Alive(children[i])
  /\ children' = [children EXCEPT ![i] = [@ EXCEPT !.st = "signaled", !.info = "SIGKILL"]]
  /\ UNCHANGED <<pc, status, stdin, line, len, cmdVars, envVars, exit_status,
                 pid, wstatus, stops, calls, errs>>

\* The child is stopped (SIGSTOP, SIGTSTP).
ChildStop(i) ==
  /\ children[i].st = "running"
  /\ stops < MaxStops
  /\ stops' = stops + 1
  /\ children' = [children EXCEPT ![i] = [@ EXCEPT !.st = "stopped", !.reported = FALSE]]
  /\ UNCHANGED <<pc, status, stdin, line, len, cmdVars, envVars, exit_status,
                 pid, wstatus, calls, errs>>

\* The stopped child is continued (SIGCONT).
ChildCont(i) ==
  /\ children[i].st = "stopped"
  /\ children' = [children EXCEPT ![i] = [@ EXCEPT !.st = "running"]]
  /\ UNCHANGED <<pc, status, stdin, line, len, cmdVars, envVars, exit_status,
                 pid, wstatus, stops, calls, errs>>

\* The shell's disposition of the interrupt signal while it runs.  main
\* never calls signal or sigaction: it is the one the shell was started with.
ShellSigint == sigint

\* What an interrupt does to a process with disposition d.
Dies(d) == d = "SIG_DFL"

\* The terminal delivers the interrupt signal to the foreground process
\* group: the shell and the child it waits for.
Interrupt ==
  /\ ShellRuns
  /\ pc # "Startup"
  /\ \/ Dies(ShellSigint)
     \/ \E i \in AliveChildren : children[i].st # "stopped" /\ Dies(children[i].sigint)
  /\ pc' = IF Dies(ShellSigint) THEN "Killed" ELSE pc
  /\ children' = [i \in DOMAIN children |->
                    IF children[i].st \in {"forked", "running"} /\ Dies(children[i].sigint)
                    THEN [children[i] EXCEPT !.st = "signaled", !.info = "SIGINT"]
                    ELSE children[i]]
  /\ UNCHANGED <<status, stdin, line, len, cmdVars, envVars, exit_status,
                 pid, wstatus, stops, calls, errs>>

Next ==
  \/ Startup
  \/ Prompt
  \/ ReadLine
  \/ ReadFail
  \/ Parse
  \/ Execute
  \/ Waitpid
  \/ WaitpidFail
  \/ Cleanup
  \/ \E i \in DOMAIN children : ChildExec(i)
  \/ \E i \in DOMAIN children, code \in ExitCodes : ChildExit(i, code)
  \/ \E i \in DOMAIN children : ChildKill(i)
  \/ \E i \in DOMAIN children : ChildStop(i)
  \/ \E i \in DOMAIN children : ChildCont(i)
  \/ Interrupt

Spec == Init /\ [][Next]_vars

-----------------------------------------------------------------------------
(* The shell with its scheduling: the shell process runs whenever it can  *)
(* take a step of its own, and a child that is alive goes on until it has *)
(* ended.                                                                  *)

\* The steps of the shell process itself.  Reading the line is a step of
\* the shell whichever way the read ends.
ShellStep ==
  \/ Startup
  \/ Prompt
  \/ ReadLine
  \/ Parse
  \/ Execute
  \/ Waitpid
  \/ Cleanup

\* A live child moves on: it calls execvp, and the program it runs exits
\* or is killed.
ChildEnds ==
  \E i \in DOMAIN children :
    \/ ChildExec(i)
    \/ \E code \in ExitCodes : ChildExit(i, code)
    \/ ChildKill(i)

SpecFair == Init /\ [][Next]_vars /\ WF_vars(ShellStep) /\ WF_vars(ChildEnds)

-----------------------------------------------------------------------------
(* parse_line as a function of its arguments: every line buffer and every *)
(* earlier content of the Command, one call of the loop's parse step.     *)

MaxParseLen == 4

MaxOver == 2

\* The characters of the lines: every delimiter, two other characters and
\* the NUL byte.
ParseChars == DELIM \cup {"a", "b", NUL}

RECURSIVE LinesUpTo(_)
LinesUpTo(n) ==
  IF n = 0 THEN {<<>>}
  ELSE LET shorter == LinesUpTo(n - 1)
       IN  shorter \cup { Append(l, c) : l \in { x \in shorter : Len(x) = n - 1 },
                                         c \in ParseChars }

\* n one-character tokens, each followed by the delimiters sep.
ManyWords(n, sep) ==
  LET unit == <<"a">> \o sep
  IN  [i \in 1..(n * Len(unit)) |-> unit[((i - 1) % Len(unit)) + 1]]

Separators == {<<"SP">>, <<"TAB", "CR">>, <<"BEL">>}

\* Every short line, lines of up to MaxOver tokens more than the argument
\* vector holds, and lines of one token of up to MaxOver characters more
\* than the name buffer holds.
ParseLines ==
  LinesUpTo(MaxParseLen)
    \cup { ManyWords(n, sep) : n \in 1..(MAX_LINE + MaxOver), sep \in Separators }
    \cup { [i \in 1..n |-> "b"] : n \in 1..(MAX_LINE + MaxOver) }

\* What an earlier iteration can have left in the Command.
StaleCommands ==
  { [args |-> NoArgs, name |-> <<>>, arg_count |-> 0],
    [args |-> [i \in 1..MAX_LINE |-> IF i <= 3 THEN 2 * i - 1 ELSE 0],
     name |-> <<"l">>, arg_count |-> 3] }

InitParse ==
  /\ pc = "Parsing"
  /\ status = GREEN
  /\ stdin = <<>>
  /\ line \in ParseLines
  /\ len = strlen(line)
  /\ \E cmd \in StaleCommands :
       /\ args = cmd.args
       /\ name = cmd.name
       /\ arg_count = cmd.arg_count
  /\ heap = [args |-> "allocated", name |-> "allocated"]
  /\ children = <<>>
  /\ pid = 0
  /\ wstatus = NoStatus
  /\ sigint = "SIG_DFL"
  /\ cwd = "/"
  /\ exit_status = -1
  /\ stops = 0
  /\ calls = {}
  /\ errs = {}

NextParse == Parse

SpecParse == InitParse /\ [][NextParse]_vars

-----------------------------------------------------------------------------
(* The parse step with buffers of the source's size, on lines of many     *)
(* tokens: what the 8-bit arg_count holds after it.                       *)

SourceMaxLine == 1024

MaxWideTokens == 130

\* Lines of n one-character tokens that the line reader delivers whole: at
\* most SourceMaxLine - 2 characters, not ended by a newline.
WideLines ==
  { ManyWords(n, <<"SP">>) :
      n \in { k \in 1..MaxWideTokens : 2 * k <= SourceMaxLine - 2 } }

InitWide ==
  /\ pc = "Parsing"
  /\ status = GREEN
  /\ stdin = <<>>
  /\ line \in WideLines
  /\ len = strlen(line)
  /\ args = NoArgsIn(SourceMaxLine)
  /\ name = <<>>
  /\ arg_count = 0
  /\ heap = [args |-> "allocated", name |-> "allocated"]
  /\ children = <<>>
  /\ pid = 0
  /\ wstatus = NoStatus
  /\ sigint = "SIG_DFL"
  /\ cwd = "/"
  /\ exit_status = -1
  /\ stops = 0
  /\ calls = {}
  /\ errs = {}

ParseWide == ParseWith(SourceMaxLine)

NextWide == ParseWide

SpecWide == InitWide /\ [][NextWide]_vars

-----------------------------------------------------------------------------
(* Notions the properties are stated with.  They are defined on the line   *)
(* as a C string, independently of Tokenize.                               *)

\* The first maximal run of non-delimiter characters of the C string in buf.
FirstWord(buf) ==
  LET s == FirstNotIn(buf, 1, DELIM)
  IN  IF s > Len(buf) THEN <<>>
      ELSE SubSeq(buf, s, FirstIn(buf, s, DELIM \cup {NUL}) - 1)

\* The C string in buf is empty or made of delimiters only.
BlankLine(buf) == \A i \in 1..strlen(buf) : buf[i] \in DELIM

\* main is inside the loop body, outside execute_command's wait.
InLoop == pc \in {"Prompting", "Reading", "Parsing", "Executing"}

\* The shell process has not been killed from outside.
LoopEnded == pc \in {"Terminated", "Exited"}

Terminal(ws) == ws.kind \in {"exited", "signaled"}

-----------------------------------------------------------------------------
(* C1 *)

-----------------------------------------------------------------------------
(* C2 *)

\* C2: a line whose first token is "exit" ends the loop without fork,
\* execvp or waitpid: the shell never waits or prompts again after it, no
\* child carries that name, and when the loop has ended after a line was
\* read and no process error was reported, it ended without any process
\* primitive exactly when the line's first token is "exit".
C2_ExitBuiltin ==
  /\ pc \in {"Waiting", "Prompting"} => FirstWord(line) # ExitStr
  /\ \A i \in DOMAIN children : children[i].name # ExitStr
  /\ (pc = "Terminated" /\ len >= 0) =>
        (FirstWord(line) = ExitStr <=> calls = {})
  /\ (pc = "Terminated" /\ len >= 0 /\ FirstWord(line) = ExitStr) =>
        (errs = {} /\ AliveChildren = {})

\* C2 witness: the loop has ended on a line "exit <token>" with nothing
\* spawned.
C2_Witness ==
  /\ pc = "Terminated"
  /\ FirstWord(line) = ExitStr
  /\ args[2] # 0
  /\ calls = {}
  /\ children = <<>>

-----------------------------------------------------------------------------
(* C3 *)

\* A step of main from Reading in which the read primitive did not fail.
ReadStep ==
  /\ pc = "Reading"
  /\ pc' \in {"Parsing", "Terminated"}
  /\ (len' # ERROR \/ stdin' # stdin)

NoNewline(in) == \A i \in 1..Len(in) : in[i] # NL

\* C3 (as stated): at end of stream with nothing read the loop ends without
\* parsing or executing; any last line that has characters and no newline
\* is returned as a line and goes to parsing.
C3_AnyLastLineReturned ==
  [][ReadStep =>
       /\ stdin = <<>> =>
            /\ len' = EOF_REACHED
            /\ pc' = "Terminated"
            /\ UNCHANGED <<line, args, name, arg_count, children, calls>>
       /\ (stdin # <<>> /\ NoNewline(stdin)) =>
            /\ pc' = "Parsing"
            /\ line' = stdin
            /\ stdin' = <<>>]_vars

\* C3 (amended): the same, for a last line of fewer than MAX_LINE-1
\* characters.
C3_EndOfInput ==
  [][ReadStep =>
       /\ stdin = <<>> =>
            /\ len' = EOF_REACHED
            /\ pc' = "Terminated"
            /\ UNCHANGED <<line, args, name, arg_count, children, calls>>
       /\ (stdin # <<>> /\ NoNewline(stdin) /\ Len(stdin) < MAX_LINE - 1) =>
            /\ pc' = "Parsing"
            /\ len' = strlen(stdin)
            /\ line' = stdin
            /\ stdin' = <<>>]_vars

\* C3 witness: end of input was signalled after a last line without a
\* newline had been parsed into a command.
C3_Witness ==
  /\ pc = "Terminated"
  /\ len = EOF_REACHED
  /\ line # <<>>
  /\ line[Len(line)] \notin DELIM \cup {NUL}
  /\ args[1] # 0

-----------------------------------------------------------------------------
(* C4 *)

\* C4: a line that is empty or made of delimiters only is never executed:
\* the shell is never in execute_command with such a line, and from the
\* parse of it to the next prompt nothing is spawned and nothing reported;
\* the shell enters execute_command only with a successfully parsed
\* Command (a first argument, a name equal to it, a positive count).
C4_EmptyInput ==
  /\ (len >= 0 /\ BlankLine(line)) => pc \notin {"Executing", "Waiting"}
  /\ (len >= 0 /\ BlankLine(line) /\ pc \in {"Parsing", "Prompting"}) =>
        /\ calls = {}
        /\ errs = {}
        /\ AliveChildren = {}
  /\ (len >= 0 /\ BlankLine(line) /\ pc = "Prompting") =>
        /\ args = NoArgs
        /\ name = <<>>
        /\ arg_count = 0
  /\ pc = "Executing" =>
        /\ args[1] # 0
        /\ name = FirstWord(line)
        /\ name # <<>>
        /\ arg_count >= 1

\* C4 witness: the shell is back at the prompt after a line of several
\* delimiters, among them a bell and the newline.
C4_Witness ==
  /\ pc = "Prompting"
  /\ len >= 3
  /\ BlankLine(line)
  /\ \E i \in 1..Len(line) : line[i] = "BEL"
  /\ line[Len(line)] = NL

-----------------------------------------------------------------------------
(* C5 *)

\* C5: once waitpid has reported that the child exited (with any code, the
\* one of a failed execvp included) or was killed by a signal, the shell is
\* at the prompt with status GREEN: no child outcome ends the loop.
C5_ChildOutcomeContinues ==
  ("waitpid" \in calls /\ Terminal(wstatus)) =>
     /\ pc \in {"Prompting", "Killed"}
     /\ status = GREEN
     /\ "Error executing command" \notin errs

\* C5 witness: the child's execvp failed, the child exited with the status
\* of exit(ERROR), and the shell is at the prompt.
C5_Witness ==
  /\ pc = "Prompting"
  /\ "waitpid" \in calls
  /\ "execvp" \in errs
  /\ wstatus.kind = "exited"
  /\ wstatus.val = ErrorExitCode

-----------------------------------------------------------------------------
(* C6 *)

\* C6 (as stated): a command named "cd" runs inside the shell and never
\* creates a child; after "cd <dir>" has been executed without an error
\* report the shell's working directory is <dir>.
C6_CdBuiltin ==
  /\ \A i \in DOMAIN children : children[i].name # CdStr
  /\ (name = CdStr /\ pc \in {"Waiting", "Prompting"}) => "fork" \notin calls
  /\ (name = CdStr /\ args[2] # 0 /\ pc = "Prompting" /\ errs = {}) =>
        cwd = StrAt(line, args[2])

-----------------------------------------------------------------------------
(* C7 *)

\* C7 (as stated): an interrupt never terminates the shell, at the prompt
\* or while it waits for a child; and every child that has replaced its
\* image has the default disposition of the interrupt signal, so that the
\* interrupt terminates it.
C7_InterruptSpared ==
  /\ pc # "Killed"
  /\ \A i \in DOMAIN children :
        children[i].st = "running" => children[i].sigint = "SIG_DFL"

-----------------------------------------------------------------------------
(* C8 *)

\* fgets fills the buffer (MAX_LINE-1 characters) and the last character
\* it takes is not a newline.
FillsBuffer(in) ==
  /\ Len(in) >= MAX_LINE - 1
  /\ \A i \in 1..(MAX_LINE - 1) : in[i] # NL

\* The stream after the rest of its first logical line: past the first
\* newline, or empty when there is none.
AfterFirstLine(in) ==
  IF NoNewline(in) THEN <<>>
  ELSE SubSeq(in, (CHOOSE i \in 1..Len(in) : in[i] = NL /\ NoNewline(SubSeq(in, 1, i - 1))) + 1,
              Len(in))

\* C8 (as stated): whenever read_line consumes MAX_LINE-1 characters the
\* last of which is not a newline, it signals the error, the stream is
\* left at the start of the following logical line, and the oversized line
\* is not parsed.
C8_OversizedLineDrained ==
  [][(ReadStep /\ FillsBuffer(stdin)) =>
        /\ len' = ERROR
        /\ stdin' = AfterFirstLine(stdin)
        /\ pc' # "Parsing"]_vars

-----------------------------------------------------------------------------
(* C9 *)

\* C9 (as stated): an input error does not end the loop.
C9_InputErrorContinues == len = ERROR => ~LoopEnded

\* C9 (amended): when read_line signals an input error, the error is
\* reported and the loop ends for good: the shell never parses, executes,
\* waits, prompts or reads again, and nothing was spawned in the iteration.
C9_InputErrorEndsLoop ==
  len = ERROR =>
     /\ pc \in {"Terminated", "Exited", "Killed"}
     /\ status = RED
     /\ "Error reading input." \in errs
     /\ calls = {}

\* C9 witness: a line that filled the buffer was refused, the shell has
\* exited, and a later line is left unread on the stream.
C9_Witness ==
  /\ pc = "Exited"
  /\ len = ERROR
  /\ Len(line) = MAX_LINE - 1
  /\ stdin # <<>>

-----------------------------------------------------------------------------
(* C10 *)

\* The loop ended through the exit built-in.
EndedByExit == len >= 0 /\ FirstWord(line) = ExitStr /\ calls = {} /\ errs = {}

\* C10 (as stated): a fork or waitpid failure does not end the loop, and
\* an iteration that read its line ends the loop only through the exit
\* built-in (the iterations whose read failed are C9's subject).
C10_ProcessErrorContinues ==
  /\ ("fork" \in errs \/ "waitpid" \in errs) => ~LoopEnded
  /\ (pc = "Terminated" /\ len # ERROR) => (len = EOF_REACHED \/ EndedByExit)

\* C10 (amended): a fork failure (no wait attempted) or a waitpid failure
\* is reported and ends the loop; the loop ends only through the exit
\* built-in, end of input, an input error, or a fork or waitpid failure.
C10_ProcessErrorEndsLoop ==
  /\ "fork" \in errs =>
        /\ pc \in {"Terminated", "Exited", "Killed"}
        /\ status = RED
        /\ "waitpid" \notin calls
        /\ "Error executing command" \in errs
  /\ "waitpid" \in errs =>
        /\ pc \in {"Terminated", "Exited", "Killed"}
        /\ status = RED
        /\ "Error executing command" \in errs
  /\ pc = "Terminated" =>
        \/ len = EOF_REACHED
        \/ len = ERROR
        \/ EndedByExit
        \/ "fork" \in errs
        \/ "waitpid" \in errs

\* C10 witness: fork failed, the shell has exited, input is left unread.
C10_Witness ==
  /\ pc = "Exited"
  /\ "fork" \in errs
  /\ children = <<>>
  /\ stdin # <<>>

-----------------------------------------------------------------------------
(* C11 *)

\* Both buffers of the Command are in state b.
Buffers(b) == heap.args = b /\ heap.name = b

\* C11: however the loop ended, the shell releases the Command's buffers
\* and exits with status 0: the buffers are still held when the loop has
\* just ended, they are released when the shell has exited, the status of
\* an exited shell is 0, and the only other exit status the shell ever has
\* is the one of a failed startup.
C11_ExitsZeroAfterRelease ==
  /\ pc = "Terminated" => Buffers("allocated") /\ exit_status = -1
  /\ pc = "Exited" => Buffers("freed") /\ exit_status = 0
  /\ InLoop \/ pc = "Waiting" => exit_status = -1
  /\ exit_status \notin {-1, 0} => pc = "Aborted"

\* C11 witness: the shell has exited with status 0 after an execution
\* error (a failed fork or waitpid) ended the loop.
C11_Witness ==
  /\ pc = "Exited"
  /\ "Error executing command" \in errs
  /\ exit_status = 0
  /\ Buffers("freed")

-----------------------------------------------------------------------------
(* C12 *)

\* The C string held in buf.
CString(buf) == Take(buf, strlen(buf))

\* Where a maximal run of non-delimiter characters of cs starts.
RunStarts(cs) ==
  { i \in 1..Len(cs) : cs[i] \notin DELIM /\ (i = 1 \/ cs[i - 1] \in DELIM) }

\* Where the run that starts at i ends.
RunEnd(cs, i) ==
  CHOOSE j \in i..Len(cs) :
    /\ \A k \in i..j : cs[k] \notin DELIM
    /\ j = Len(cs) \/ cs[j + 1] \in DELIM

RECURSIVE RunsFrom(_, _)
RunsFrom(cs, S) ==
  IF S = {} THEN <<>>
  ELSE LET i == CHOOSE x \in S : \A y \in S : x <= y
       IN  <<SubSeq(cs, i, RunEnd(cs, i))>> \o RunsFrom(cs, S \ {i})

\* The maximal runs of non-delimiter characters of the string in buf, in
\* order.
Words(buf) == RunsFrom(CString(buf), RunStarts(CString(buf)))

\* The line buffer holds a string the line reader's buffer can hold.
FitsBuffer(buf) == Len(buf) <= MAX_LINE - 1

\* C12: for every line with at least one token, the parse step succeeds
\* and leaves in args, in order, exactly the maximal runs of non-delimiter
\* characters of the line (none empty, none holding a delimiter), then a
\* null pointer, and in name the whole first token.
C12_TokensAreRuns ==
  [][ (pc = "Parsing" /\ FitsBuffer(line) /\ Words(line) # <<>>) =>
        LET A == ArgStrings(line', args', 1)
        IN  /\ pc' = "Executing"
            /\ A = Words(line)
            /\ \A i \in 1..Len(A) :
                 A[i] # <<>> /\ \A k \in 1..Len(A[i]) : A[i][k] \notin DELIM
            /\ \A i \in 1..Len(A) : args'[i] # 0
            /\ args'[Len(A) + 1] = 0
            /\ name' = Words(line)[1] ]_vars

\* C12 witness: a line of two tokens between runs of different delimiters
\* has been parsed into those two tokens.
C12_Witness ==
  /\ pc = "Executing"
  /\ ArgStrings(line, args, 1) = << <<"b">>, <<"a">> >>
  /\ line[1] = "TAB"
  /\ Len(line) = 4
  /\ name = <<"b">>

-----------------------------------------------------------------------------
(* C13 *)

\* What parse_line does in the parse step taken from the current state.
ThisParse ==
  parse_line(MAX_LINE, line,
             ResetCommand(MAX_LINE, [args |-> args, name |-> name,
                                     arg_count |-> arg_count]))

\* C13: the parse step stores tokens and the null terminator only at the
\* indices 0..MAX_LINE-1 of args, and a line with more tokens than the
\* vector holds beside its terminator is reported as having too many
\* arguments: the step does not succeed and no process is spawned.
C13_VectorBounded ==
  [][ pc = "Parsing" =>
        /\ ThisParse.writes \subseteq 0..(MAX_LINE - 1)
        /\ DOMAIN args' = 1..MAX_LINE
        /\ Len(Words(line)) > MAX_LINE - 1 =>
             /\ "Too many arguments" \in errs'
             /\ pc' = "Prompting"
             /\ children' = children
             /\ calls' = calls ]_vars

\* C13 witness: a line of more tokens than the vector holds was refused
\* after a token was stored in the vector's last element, and nothing was
\* spawned.
C13_Witness ==
  /\ pc = "Prompting"
  /\ "Too many arguments" \in errs
  /\ args[MAX_LINE] # 0
  /\ children = <<>>
  /\ calls = {}

-----------------------------------------------------------------------------
(* C14 *)

\* The states a child process can be in: about to call execvp, running or
\* stopped in the image execvp loaded, ended, collected.  A child that runs
\* the shell's own loop would be "inloop".
ChildStates == {"forked", "running", "stopped", "exited", "signaled", "reaped"}

\* C14: no child ever runs the shell's loop or returns from
\* execute_command, and the child whose execvp failed has reported it and
\* exited with a non-zero status, which is what waitpid then reports.
C14_ChildNeverRunsLoop ==
  /\ \A i \in DOMAIN children : children[i].st \in ChildStates
  /\ (pc = "Waiting" /\ "execvp" \in errs) =>
       /\ children[pid].st = "exited"
       /\ children[pid].info = ErrorExitCode
       /\ children[pid].info # 0
  /\ (pc \in {"Prompting", "Terminated"} /\ "execvp" \in errs
        /\ wstatus.kind = "exited") => wstatus.val # 0

\* C14 witness: execvp failed in the child, which has exited with status
\* 255 while the shell waits for it.
C14_Witness ==
  /\ pc = "Waiting"
  /\ "execvp" \in errs
  /\ children[pid].st = "exited"
  /\ children[pid].info = ErrorExitCode

-----------------------------------------------------------------------------
(* C15 *)

\* C15: after a successful parse, arg_count is the number of tokens of the
\* line, a count of at least 1, for every number of tokens a line can hold.
C15_CountIsTokenCount ==
  pc = "Executing" =>
    /\ arg_count = Len(ArgStrings(line, args, 1))
    /\ arg_count >= 1

-----------------------------------------------------------------------------
(* C16 *)

\* C16: the Command owns its strings: reading the next line into the line
\* buffer changes neither the strings args refers to nor name.
C16_CommandOwnsItsStrings ==
  [][ pc = "Reading" =>
        /\ ArgStrings(line', args', 1) = ArgStrings(line, args, 1)
        /\ name' = name ]_vars

-----------------------------------------------------------------------------
(* C17 *)

\* The Command holds the result of the parse of the current line.
AfterParseOfLine == pc \in {"Executing", "Waiting"}

\* C17: parse_line is called on an empty Command, so nothing of an earlier
\* line is visible after it: once a line is parsed, args holds the line's
\* arg_count tokens and null pointers everywhere else, and name is the
\* first of these tokens; after a blank line the whole Command is empty.
C17_CommandResetBeforeParse ==
  /\ AfterParseOfLine =>
       /\ \A i \in 1..MAX_LINE : (args[i] # 0) <=> (i <= arg_count)
       /\ name = StrAt(line, args[1])
  /\ (pc = "Prompting" /\ len >= 0 /\ BlankLine(line)) =>
       /\ args = NoArgs
       /\ name = <<>>
       /\ arg_count = 0

\* C17 witness: a command was run for an earlier line, the current line is
\* blank, and the Command is empty after its parse.
C17_Witness ==
  /\ pc = "Prompting"
  /\ len >= 0
  /\ BlankLine(line)
  /\ \E i \in DOMAIN children : children[i].st = "reaped"
  /\ args = NoArgs
  /\ name = <<>>
  /\ arg_count = 0

-----------------------------------------------------------------------------
(* C18 *)

\* C18: the two buffers are allocated at startup and stay allocated for as
\* long as the loop runs; each is released once, when the shell exits or
\* when the second allocation fails at startup; nothing is left allocated
\* by a shell that has exited, and free is never given a block that is not
\* live (one already released, or one never allocated).
C18_BuffersOwnedOnce ==
  /\ heap.args # "invalid" /\ heap.name # "invalid"
  /\ pc = "Startup" => Buffers("none")
  /\ (InLoop \/ pc \in {"Waiting", "Terminated"}) => Buffers("allocated")
  /\ pc = "Exited" => Buffers("freed")
  /\ pc = "Aborted" => heap.name = "none" /\ heap.args \in {"none", "freed"}

\* C18 witness: the allocation of name failed at startup and the shell
\* has released args, its only live block, before exiting.
C18_Witness ==
  /\ pc = "Aborted"
  /\ heap = [args |-> "freed", name |-> "none"]
  /\ "Error allocating memory for command name." \in errs

-----------------------------------------------------------------------------
(* C19 *)

\* Offset p of buf is where a token starts: a character that is neither a
\* delimiter nor NUL, at the start of buf or after a delimiter or a NUL.
TokenStart(buf, p) ==
  /\ p \in 1..Len(buf)
  /\ buf[p] \notin DELIM \cup {NUL}
  /\ p = 1 \/ buf[p - 1] \in DELIM \cup {NUL}

\* C19: while the Command is read, the line buffer still holds the line
\* it was parsed from: from the parse to the return of execute_command
\* every element of args points at the start of a token of the buffer and
\* name is the first of them; a child that has not yet called execvp has
\* the very strings the shell's Command refers to; and the name in the
\* loop's error message is the first token of the line still in the buffer.
C19_LineIntactWhileRead ==
  /\ AfterParseOfLine =>
       /\ \A i \in 1..MAX_LINE : args[i] # 0 => TokenStart(line, args[i])
       /\ name = FirstWord(line)
  /\ \A i \in DOMAIN children :
       children[i].st = "forked" =>
         /\ children[i].argv = ArgStrings(line, args, 1)
         /\ children[i].name = name
         /\ children[i].argv[1] = name
  /\ "Error executing command" \in errs =>
       /\ TokenStart(line, args[1])
       /\ name = StrAt(line, args[1])

\* C19 witness: the second command of the stream has been forked and has
\* not yet called execvp; its strings are those of the line in the buffer.
C19_Witness ==
  /\ pc = "Waiting"
  /\ pid = 2
  /\ children[pid].st = "forked"
  /\ children[pid].argv = ArgStrings(line, args, 1)
  /\ children[pid].argv # <<>>

-----------------------------------------------------------------------------
(* C20 *)

\* C20: with a finite input stream and children that all end, a shell
\* that has reached its prompt eventually reaches Terminated.
C20_ReachesTerminated == (pc = "Prompting") ~> (pc = "Terminated")

=============================================================================
